---- MODULE Spec2Model ----
(***************************************************************************)
(* TaskFlow API (src/main.py): a FastAPI service over two SQLite tables,   *)
(* users and tasks.  Every HTTP handler is one action; the tables are sets *)
(* of rows; resp is the outcome of the request handled by the last step.   *)
(***************************************************************************)
EXTENDS Integers, Sequences, FiniteSets

\* ------------------------------------------------------------------ bounds
MaxUsers    == 2    \* user rows that can be inserted
MaxTasks    == 2    \* task rows that can exist at once
MaxClock    == 1    \* CURRENT_TIMESTAMP runs over 0..MaxClock (whole seconds)
MaxRequests == 4    \* requests handled in one behaviour

\* ------------------------------------------------------------ input domains
Names        == {"n"}
Emails       == {"a@x", "b@x"}
Titles       == {"A", "B"}
Descriptions == {"d"}
Priorities   == {1, 2}

GhostUser == 0                   \* an id string that no uuid4() call returns
UserIds   == 1..MaxUsers         \* the values str(uuid.uuid4()) yields for users
TaskIds   == 1..MaxTasks         \* the values str(uuid.uuid4()) yields for tasks
PathUsers == {GhostUser} \cup UserIds
NoTask    == 0

\* Optional[T]: <<>> is None, <<v>> is the value v
Opt(S) == {<<>>} \cup {<<v>> : v \in S}
None   == <<>>

VARIABLES users, tasks, now, nreq, resp, pc, local

vars == <<users, tasks, now, nreq, resp, pc, local>>

Procs == {1, 2}

\* ------------------------------------------------------------------ schema
\* CREATE TABLE users (id PRIMARY KEY, name, email UNIQUE, created_at)
UserRows == [id : UserIds, name : Names, email : Emails, created_at : 0..MaxClock]

\* CREATE TABLE tasks (id PRIMARY KEY, title, description, completed, user_id,
\*                     priority, created_at, updated_at)
TaskRows == [id : TaskIds, title : Titles, description : Opt(Descriptions),
             completed : BOOLEAN, user_id : PathUsers, priority : Priorities,
             created_at : 0..MaxClock, updated_at : 0..MaxClock]

\* class TaskCreate(TaskBase): title, description, completed, priority, user_id.
\* user_id is a required field of the body; <<>> models a body without it.
TaskCreate == [title : Titles, description : Opt(Descriptions),
               completed : BOOLEAN, priority : Priorities, user_id : Opt(PathUsers)]

\* The bodies POSTed in the model: a title, an optional description, the
\* defaults for completed and priority, and any user_id or none.
PostedTasks == [title : {"A"}, description : Opt(Descriptions), completed : {FALSE},
                priority : {1}, user_id : Opt(PathUsers)]

Fields == {"title", "description", "completed", "priority"}

\* class TaskUpdate: four Optional fields defaulting to None, plus the set of
\* fields the request body actually carried (pydantic's fields-set).
TaskUpdate ==
    {u \in [fields_set : SUBSET Fields, title : Opt(Titles),
            description : Opt(Descriptions), completed : Opt(BOOLEAN),
            priority : Opt(Priorities)] :
        \A f \in Fields \ u.fields_set : u[f] = None}

\* The bodies PUT in the model: any subset of the four fields, each with a new
\* value; title and description may also carry null.
PutBody(fs, title, description) ==
    [fields_set  |-> fs,
     title       |-> IF "title" \in fs THEN title ELSE None,
     description |-> IF "description" \in fs THEN description ELSE None,
     completed   |-> IF "completed" \in fs THEN <<TRUE>> ELSE None,
     priority    |-> IF "priority" \in fs THEN <<2>> ELSE None]

PutUpdates ==
    {PutBody(fs, title, description) :
        fs \in SUBSET Fields, title \in Opt({"B"}), description \in Opt(Descriptions)}

\* ---------------------------------------------------------------- responses
Response(op, u, t, status, detail, closed, committed, fs, body) ==
    [op |-> op, user_id |-> u, task_id |-> t, status |-> status,
     detail |-> detail, closed |-> closed, committed |-> committed,
     fields_set |-> fs, body |-> body]

NoResp == Response("none", GhostUser, NoTask, 0, "", TRUE, FALSE, {}, {})

\* ---------------------------------------------------------------- queries
\* SELECT id FROM users WHERE id = ?
SelectUser(user_id) == {u \in users : u.id = user_id}

\* Faulty variant of SelectTask: the WHERE clause without AND user_id = ?
SelectTaskById(task_id, user_id) ==
    {t \in tasks : t.id = task_id}

\* SELECT * FROM tasks WHERE id = ? AND user_id = ?
SelectTask(task_id, user_id) ==
    {t \in tasks : t.id = task_id /\ t.user_id = user_id}

\* SELECT * FROM tasks WHERE user_id = ?
SelectTasksOf(user_id) == {t \in tasks : t.user_id = user_id}

\* Faulty variant of EmailTaken: the email column without UNIQUE
EmailNeverTaken(email) == FALSE

\* email TEXT UNIQUE NOT NULL: the INSERT raises sqlite3.IntegrityError when
\* a stored row already has the email
EmailTaken(email) == \E u \in users : u.email = email

\* str(uuid.uuid4()): an id no stored row has (the smallest one, up to renaming)
FreshId(ids, used) == CHOOSE i \in ids \ used : \A j \in ids \ used : i <= j

\* ---------------------------------------------------------------- init_db
\* init_db: both tables created, no rows
Init ==
    /\ users = {}
    /\ tasks = {}
    /\ now = 0
    /\ nreq = 0
    /\ resp = NoResp
    /\ pc = [p \in Procs |-> "idle"]
    /\ local = [p \in Procs |-> [user_id |-> GhostUser, task_id |-> NoTask, completed |-> FALSE]]

\* One second passes on the clock behind CURRENT_TIMESTAMP, between requests.
Tick ==
    /\ resp = NoResp
    /\ now < MaxClock
    /\ now' = now + 1
    /\ UNCHANGED <<users, tasks, nreq, resp, pc, local>>

\* A handler starts only once the previous response has gone out.
Ready == resp = NoResp /\ nreq < MaxRequests

\* The response of the last handler goes out to the client.
Respond ==
    /\ resp # NoResp
    /\ resp' = NoResp
    /\ UNCHANGED <<users, tasks, now, nreq, pc, local>>

\* A request is accepted; the clock does not move while it is handled.
Accept ==
    /\ Ready
    /\ nreq' = nreq + 1
    /\ now' = now

\* A request handled from entry to exit in one step.
Handle ==
    /\ Accept
    /\ UNCHANGED <<pc, local>>

\* ---------------------------------------------------------------- handlers
health_check ==
    /\ Handle
    /\ resp' = Response("health_check", GhostUser, NoTask, 200, "healthy", TRUE, FALSE, {}, {})
    /\ UNCHANGED <<users, tasks>>

create_user(name, email) ==
    /\ Handle
    /\ LET user_id == FreshId(UserIds, {u.id : u \in users})
           row == [id |-> user_id, name |-> name, email |-> email, created_at |-> now]
       IN IF EmailTaken(email)
          THEN /\ users' = users
               /\ resp' = Response("create_user", GhostUser, NoTask, 400,
                                   "Email already registered", TRUE, FALSE, {}, {})
          ELSE /\ Cardinality(users) < MaxUsers
               /\ users' = users \cup {row}
               /\ resp' = Response("create_user", user_id, NoTask, 200, "", TRUE, TRUE, {}, {row})
    /\ UNCHANGED tasks

get_user(user_id) ==
    /\ Handle
    /\ LET user == SelectUser(user_id)
       IN IF user = {}
          THEN resp' = Response("get_user", user_id, NoTask, 404, "User not found", TRUE, FALSE, {}, {})
          ELSE resp' = Response("get_user", user_id, NoTask, 200, "", TRUE, FALSE, {}, user)
    /\ UNCHANGED <<users, tasks>>

\* cursor.execute on a connection: raises sqlite3.ProgrammingError ("Cannot
\* operate on a closed database") once conn.close() has been called, which
\* FastAPI turns into a 500 response
CursorUsable(closed) == ~closed

create_task(user_id, task) ==
    /\ Handle
    /\ IF task.user_id = None
       THEN \* request validation: the body lacks the required user_id
            /\ tasks' = tasks
            /\ resp' = Response("create_task", user_id, NoTask, 422, "Field required", TRUE, FALSE, {}, {})
       ELSE IF SelectUser(user_id) = {}
       THEN /\ tasks' = tasks
            /\ resp' = Response("create_task", user_id, NoTask, 404, "User not found", TRUE, FALSE, {}, {})
       ELSE /\ Cardinality(tasks) < MaxTasks
            /\ LET task_id == FreshId(TaskIds, {t.id : t \in tasks})
                   row == [id |-> task_id, title |-> task.title,
                           description |-> task.description,
                           completed |-> task.completed,
                           user_id |-> task.user_id[1], priority |-> task.priority,
                           created_at |-> now, updated_at |-> now]
               IN /\ tasks' = tasks \cup {row}
                  /\ resp' = Response("create_task", user_id, task_id, 200, "", TRUE, TRUE, {}, {row})
    /\ UNCHANGED users

get_tasks(user_id) ==
    /\ Handle
    /\ IF SelectUser(user_id) = {}
       THEN resp' = Response("get_tasks", user_id, NoTask, 404, "User not found", TRUE, FALSE, {}, {})
       ELSE resp' = Response("get_tasks", user_id, NoTask, 200, "", TRUE, FALSE, {}, SelectTasksOf(user_id))
    /\ UNCHANGED <<users, tasks>>

get_task(user_id, task_id) ==
    /\ Handle
    /\ LET task == SelectTask(task_id, user_id)
       IN IF SelectUser(user_id) = {}
          THEN resp' = Response("get_task", user_id, task_id, 404, "User not found", TRUE, FALSE, {}, {})
          ELSE IF task = {}
          THEN resp' = Response("get_task", user_id, task_id, 404, "Task not found", TRUE, FALSE, {}, {})
          ELSE resp' = Response("get_task", user_id, task_id, 200, "", TRUE, FALSE, {}, task)
    /\ UNCHANGED <<users, tasks>>

\* update_fields: the fields of task_update.dict(exclude_unset=True) whose
\* value is not None
update_fields(task_update) ==
    {f \in task_update.fields_set : task_update[f] # None}

\* Faulty variant of SetFields: every column is written, an absent field with the
\* default of TaskBase / TaskUpdate
SetFieldsWithDefaults(t, task_update) ==
    LET uf == update_fields(task_update)
    IN [t EXCEPT
          !.title       = IF "title" \in uf THEN task_update.title[1] ELSE @,
          !.description = task_update.description,
          !.completed   = IF "completed" \in uf THEN task_update.completed[1] ELSE FALSE,
          !.priority    = IF "priority" \in uf THEN task_update.priority[1] ELSE 1,
          !.updated_at  = now]

\* The row after SET <update_fields>, updated_at = CURRENT_TIMESTAMP
SetFields(t, task_update) ==
    LET uf == update_fields(task_update)
    IN [t EXCEPT
          !.title       = IF "title" \in uf THEN task_update.title[1] ELSE @,
          !.description = IF "description" \in uf THEN task_update.description ELSE @,
          !.completed   = IF "completed" \in uf THEN task_update.completed[1] ELSE @,
          !.priority    = IF "priority" \in uf THEN task_update.priority[1] ELSE @,
          !.updated_at  = now]

\* UPDATE tasks SET ... WHERE id = ? AND user_id = ?  (set[t] is the row t
\* after the SET clause)
UpdateWhere(task_id, user_id, set) ==
    {IF t.id = task_id /\ t.user_id = user_id THEN set[t] ELSE t : t \in tasks}

update_task(user_id, task_id, task_update) ==
    /\ Handle
    /\ IF SelectUser(user_id) = {}
       THEN /\ tasks' = tasks
            /\ resp' = Response("update_task", user_id, task_id, 404, "User not found",
                                TRUE, FALSE, {}, {})
       ELSE IF SelectTask(task_id, user_id) = {}
       THEN \* raised without conn.close()
            /\ tasks' = tasks
            /\ resp' = Response("update_task", user_id, task_id, 404, "Task not found",
                                FALSE, FALSE, {}, {})
       ELSE LET SetRow == [t \in tasks |-> SetFields(t, task_update)]
            IN /\ tasks' = IF update_fields(task_update) # {}
                           THEN UpdateWhere(task_id, user_id, SetRow)
                           ELSE tasks
               \* conn.commit(); conn.close(); then the cursor is used again
               /\ resp' = IF CursorUsable(TRUE)
                          THEN Response("update_task", user_id, task_id, 200, "", TRUE, TRUE,
                                        task_update.fields_set, SelectTask(task_id, user_id)')
                          ELSE Response("update_task", user_id, task_id, 500, "Internal Server Error",
                                        TRUE, TRUE, task_update.fields_set, {})
    /\ UNCHANGED users

delete_task(user_id, task_id) ==
    /\ Handle
    /\ IF SelectUser(user_id) = {}
       THEN /\ tasks' = tasks
            /\ resp' = Response("delete_task", user_id, task_id, 404, "User not found", TRUE, FALSE, {}, {})
       ELSE IF SelectTask(task_id, user_id) = {}
       THEN \* raised without conn.close()
            /\ tasks' = tasks
            /\ resp' = Response("delete_task", user_id, task_id, 404, "Task not found", FALSE, FALSE, {}, {})
       ELSE \* DELETE FROM tasks WHERE id = ? AND user_id = ?
            /\ tasks' = tasks \ SelectTask(task_id, user_id)
            /\ resp' = Response("delete_task", user_id, task_id, 200, "Task deleted successfully",
                                TRUE, TRUE, {}, {})
    /\ UNCHANGED users

\* The row after SET completed = ?, updated_at = CURRENT_TIMESTAMP
SetCompleted(t, new_completed_status) ==
    [t EXCEPT !.completed = new_completed_status, !.updated_at = now]

\* new_completed_status = not bool(task['completed'])
NewCompletedStatus(completed) == ~completed

\* The UPDATE, commit and close of toggle_task_completion, and the response
\* built from the cursor after the close.
ToggleWrite(user_id, task_id, new_completed_status) ==
    LET SetRow == [t \in tasks |-> SetCompleted(t, new_completed_status)]
    IN /\ tasks' = UpdateWhere(task_id, user_id, SetRow)
       /\ resp' = IF CursorUsable(TRUE)
                  THEN Response("toggle_task_completion", user_id, task_id, 200, "", TRUE, TRUE,
                                {}, SelectTask(task_id, user_id)')
                  ELSE Response("toggle_task_completion", user_id, task_id, 500,
                                "Internal Server Error", TRUE, TRUE, {}, {})

\* The two SELECTs of toggle_task_completion failing: the 404 responses.
ToggleNotFound(user_id, task_id) ==
    /\ tasks' = tasks
    /\ IF SelectUser(user_id) = {}
       THEN resp' = Response("toggle_task_completion", user_id, task_id, 404, "User not found",
                             TRUE, FALSE, {}, {})
       ELSE \* raised without conn.close()
            resp' = Response("toggle_task_completion", user_id, task_id, 404, "Task not found",
                             FALSE, FALSE, {}, {})

ToggleFound(user_id, task_id) ==
    SelectUser(user_id) # {} /\ SelectTask(task_id, user_id) # {}

toggle_task_completion(user_id, task_id) ==
    /\ Handle
    /\ IF ToggleFound(user_id, task_id)
       THEN LET task == CHOOSE t \in SelectTask(task_id, user_id) : TRUE
            IN ToggleWrite(user_id, task_id, NewCompletedStatus(task.completed))
       ELSE ToggleNotFound(user_id, task_id)
    /\ UNCHANGED users

\* ------------------------------------------------------------------- chat
\* A message is modelled by the set of keywords it contains as substrings.
Messages ==
    { {"add", "task"},            \* "please add a task"
      {"show", "my", "list"},     \* "show my list"
      {"mark", "done"},           \* "mark it done"
      {"remove"},                 \* "remove it"
      {"hi"},                     \* "hi there"
      {} }                        \* "xyz123"

ChatRules ==
    << [words |-> {"add", "create", "new", "task", "todo"},          action |-> "suggest_create_task"],
       [words |-> {"show", "list", "see", "my", "tasks", "todos"},   action |-> "suggest_view_tasks"],
       [words |-> {"complete", "done", "finish", "mark"},            action |-> "suggest_complete_task"],
       [words |-> {"delete", "remove", "cancel"},                    action |-> "suggest_delete_task"],
       [words |-> {"hello", "hi", "hey", "help"},                    action |-> "provide_assistance"] >>

\* the if/elif chain: the first rule with a keyword in the message wins
RECURSIVE ChatAction(_, _)
ChatAction(message, i) ==
    IF i > Len(ChatRules) THEN "acknowledge_message"
    ELSE IF ChatRules[i].words \cap message # {} THEN ChatRules[i].action
    ELSE ChatAction(message, i + 1)

chat_endpoint(message, user_id) ==
    /\ Handle
    /\ IF SelectUser(user_id) = {}
       THEN resp' = Response("chat_endpoint", user_id, NoTask, 404, "User not found", TRUE, FALSE, {}, {})
       ELSE resp' = Response("chat_endpoint", user_id, NoTask, 200, ChatAction(message, 1),
                             TRUE, FALSE, {}, {})
    /\ UNCHANGED <<users, tasks>>

\* ------------------------------------------------------------ specification
\* A body's user_id is any string: the id of a stored user, or of none.
BodyUsers == {GhostUser} \cup {u.id : u \in users}

Next ==
    \/ Tick
    \/ Respond
    \/ Ready /\ health_check
    \/ Ready /\ \E name \in Names, email \in Emails : create_user(name, email)
    \/ Ready /\ \E user_id \in PathUsers : get_user(user_id)
    \/ Ready /\ \E user_id \in PathUsers, task \in PostedTasks :
                   /\ task.user_id \in Opt(BodyUsers)
                   /\ create_task(user_id, task)
    \/ Ready /\ \E user_id \in PathUsers : get_tasks(user_id)
    \/ Ready /\ \E user_id \in PathUsers, task_id \in TaskIds : get_task(user_id, task_id)
    \/ Ready /\ \E user_id \in PathUsers, task_id \in TaskIds, task_update \in PutUpdates :
                   update_task(user_id, task_id, task_update)
    \/ Ready /\ \E user_id \in PathUsers, task_id \in TaskIds : delete_task(user_id, task_id)
    \/ Ready /\ \E user_id \in PathUsers, task_id \in TaskIds :
                   toggle_task_completion(user_id, task_id)
    \/ Ready /\ \E message \in Messages, user_id \in PathUsers : chat_endpoint(message, user_id)

Spec == Init /\ [][Next]_vars

\* ----------------------------------------- two concurrent toggle requests
\* Handlers are plain def functions, which FastAPI runs on worker threads, each
\* with its own connection.  The SELECTs run outside a transaction; the UPDATE
\* and the commit are one write transaction.
toggle_select(p, user_id, task_id) ==
    /\ pc[p] = "idle"
    /\ Accept
    /\ IF ToggleFound(user_id, task_id)
       THEN LET task == CHOOSE t \in SelectTask(task_id, user_id) : TRUE
            IN /\ pc' = [pc EXCEPT ![p] = "update"]
               /\ local' = [local EXCEPT ![p] = [user_id |-> user_id, task_id |-> task_id,
                                                  completed |-> task.completed]]
               /\ UNCHANGED <<tasks, resp>>
       ELSE /\ ToggleNotFound(user_id, task_id)
            /\ UNCHANGED <<pc, local>>
    /\ UNCHANGED users

toggle_update(p) ==
    /\ pc[p] = "update"
    /\ resp = NoResp
    /\ ToggleWrite(local[p].user_id, local[p].task_id, NewCompletedStatus(local[p].completed))
    /\ pc' = [pc EXCEPT ![p] = "idle"]
    /\ UNCHANGED <<users, now, nreq, local>>

ConcNext ==
    \/ Tick
    \/ Respond
    \/ Ready /\ \E name \in Names, email \in Emails : create_user(name, email)
    \/ Ready /\ \E user_id \in PathUsers, task \in PostedTasks :
                   /\ task.user_id \in Opt(BodyUsers)
                   /\ create_task(user_id, task)
    \/ Ready /\ \E p \in Procs, user_id \in PathUsers, task_id \in TaskIds :
                   toggle_select(p, user_id, task_id)
    \/ \E p \in Procs : toggle_update(p)

ConcSpec == Init /\ [][ConcNext]_vars

\* ------------------------------------------------------------------- types
TypeOK ==
    /\ users \subseteq UserRows
    /\ tasks \subseteq TaskRows
    /\ now \in 0..MaxClock
    /\ nreq \in 0..MaxRequests

\* =================================================================== claims
\* The step is a handler producing a response for operation op.
Handled(op) == resp = NoResp /\ resp'.op = op

\* The stored row with the given id, before and after the step.
RowOf(task_id)    == {t \in tasks : t.id = task_id}
RowAfter(task_id) == {t \in tasks' : t.id = task_id}

\* The task/user pair exists: a stored user, and a task stored under its id.
Owns(user_id, task_id) ==
    /\ \E u \in users : u.id = user_id
    /\ \E t \in tasks : t.id = task_id /\ t.user_id = user_id

\* C1: every stored task's user_id is the id of a stored user.
C1_ReferentialIntegrity ==
    \A t \in tasks : \E u \in users : u.id = t.user_id

\* C2: after a successful createTask on the path of user U, listTasks(U)
\* contains the new task, getTask(U, id) finds it, and no other user's list
\* contains it.
C2_CreatedTaskOwnedByPathUser ==
    (resp.op = "create_task" /\ resp.status = 200) =>
        /\ \E t \in SelectTasksOf(resp.user_id) : t.id = resp.task_id
        /\ SelectTask(resp.task_id, resp.user_id) # {}
        /\ \A other \in PathUsers \ {resp.user_id} :
              \A t \in SelectTasksOf(other) : t.id # resp.task_id

\* C3: updateTask and toggleTaskCompletion on a task that exists and belongs
\* to an existing user answer 200 with the row as stored after the mutation;
\* a committed write never ends in an error response.
C3_MutationReturnsStoredTask ==
    (/\ resp.op \in {"update_task", "toggle_task_completion"}
     /\ Owns(resp.user_id, resp.task_id)) =>
        /\ resp.status = 200
        /\ resp.body = {t \in tasks : t.id = resp.task_id}

\* C4: created_at = updated_at right after createTask; every updateTask and
\* toggleTaskCompletion that goes through strictly increases the stored
\* updated_at and keeps created_at.
C4_UpdatedAtAdvances ==
    [][ /\ (Handled("create_task") /\ resp'.status = 200) =>
              \A t \in RowAfter(resp'.task_id) : t.created_at = t.updated_at
        /\ ((Handled("update_task") \/ Handled("toggle_task_completion")) /\ resp'.committed) =>
              \A t \in RowOf(resp'.task_id) :
                 \E t2 \in RowAfter(resp'.task_id) :
                    /\ t2.updated_at > t.updated_at
                    /\ t2.created_at = t.created_at ]_vars

\* The frame of one updateTask(user_id, task_id, task_update) step on a stored row.
FrameOf(old, new, task_update) ==
    /\ "title" \notin task_update.fields_set => new.title = old.title
    /\ "description" \notin task_update.fields_set => new.description = old.description
    /\ "completed" \notin task_update.fields_set => new.completed = old.completed
    /\ "priority" \notin task_update.fields_set => new.priority = old.priority
    /\ ("title" \in task_update.fields_set /\ task_update.title # None)
          => new.title = task_update.title[1]
    /\ ("description" \in task_update.fields_set /\ task_update.description # None)
          => new.description = task_update.description
    /\ ("completed" \in task_update.fields_set /\ task_update.completed # None)
          => new.completed = task_update.completed[1]
    /\ ("priority" \in task_update.fields_set /\ task_update.priority # None)
          => new.priority = task_update.priority[1]
    /\ new.id = old.id
    /\ new.user_id = old.user_id
    /\ new.created_at = old.created_at

\* C5: after updateTask on an existing task/user pair, absent fields keep their
\* value, fields present with a non-null value have the requested value, id,
\* user_id and created_at are unchanged, and so is every other task row.
C5_PartialUpdateFrame ==
    [][ (Handled("update_task") /\ Owns(resp'.user_id, resp'.task_id)) =>
          \A user_id \in PathUsers : (resp'.user_id = user_id) =>
          \A task_id \in TaskIds : (resp'.task_id = task_id) =>
          \A task_update \in PutUpdates :
             (/\ resp'.fields_set = task_update.fields_set
              /\ update_task(user_id, task_id, task_update)) =>
                \A old \in RowOf(task_id) :
                   /\ \E new \in RowAfter(old.id) : FrameOf(old, new, task_update)
                   /\ Cardinality(RowAfter(old.id)) = 1
                   /\ {t \in tasks' : t.id # old.id} = {t \in tasks : t.id # old.id} ]_vars

\* C5 witness: a PUT carrying only priority went through on a task that keeps
\* its title "A", while another task row is stored.
C5_Witness ==
    /\ resp.op = "update_task"
    /\ resp.committed
    /\ resp.fields_set = {"priority"}
    /\ \E t \in tasks : t.id = resp.task_id /\ t.title = "A" /\ t.priority = 2
    /\ \E t \in tasks : t.id # resp.task_id

\* C6: updateTask carrying description: null stores null as the description.
C6_ExplicitNullStored ==
    [][ (Handled("update_task") /\ Owns(resp'.user_id, resp'.task_id)) =>
          \A user_id \in PathUsers : (resp'.user_id = user_id) =>
          \A task_id \in TaskIds : (resp'.task_id = task_id) =>
          \A task_update \in PutUpdates :
             (/\ resp'.fields_set = task_update.fields_set
              /\ "description" \in task_update.fields_set
              /\ task_update.description = None
              /\ update_task(user_id, task_id, task_update)) =>
                \A old \in RowOf(task_id) :
                   \A new \in RowAfter(old.id) : new.description = None ]_vars

\* C7: when a handler has finished, with a result or with an error, the
\* connection it opened is closed.
C7_ConnectionReleased ==
    resp # NoResp => resp.closed

\* No two stored users share an email.
C8_EmailsUnique ==
    \A u1 \in users, u2 \in users : u1.email = u2.email => u1 = u2

\* A createUser step whose email is already stored answers 400 and leaves the
\* users table as it was.
C8_DuplicateRejected ==
    \A name \in Names, email \in Emails :
       (/\ resp = NoResp
        /\ create_user(name, email)
        /\ \E u \in users : u.email = email) =>
           /\ resp'.status = 400
           /\ resp'.detail = "Email already registered"
           /\ users' = users

\* C8: no two stored users share an email, and createUser with a stored email
\* answers 400, adds no row and leaves the stored users as they were.
C8_EmailUniqueness ==
    []C8_EmailsUnique /\ [][C8_DuplicateRejected]_vars

\* C8 witness: a createUser was refused while a user is stored.
C8_Witness ==
    /\ resp.op = "create_user"
    /\ resp.status = 400
    /\ users # {}

\* C9: getTask, updateTask, toggleTaskCompletion and deleteTask on (U, T) with
\* T absent or stored under another user_id answer 404 with a response that
\* depends on U alone, and change no task row.
C9_CrossUserIsolation ==
    [][ (/\ \/ Handled("get_task") \/ Handled("update_task")
            \/ Handled("toggle_task_completion") \/ Handled("delete_task")
         /\ ~\E t \in tasks : t.id = resp'.task_id /\ t.user_id = resp'.user_id) =>
           /\ resp'.status = 404
           /\ resp'.body = {}
           /\ resp'.detail = IF \E u \in users : u.id = resp'.user_id
                             THEN "Task not found" ELSE "User not found"
           /\ tasks' = tasks ]_vars

\* C9 witness: a stored user asked for a task stored under another stored user
\* and got 404.
C9_Witness ==
    /\ resp.op \in {"get_task", "update_task", "toggle_task_completion", "delete_task"}
    /\ resp.status = 404
    /\ \E u \in users : u.id = resp.user_id
    /\ \E t \in tasks : /\ t.id = resp.task_id
                        /\ t.user_id # resp.user_id
                        /\ \E u \in users : u.id = t.user_id

\* C10: each of two concurrent toggleTaskCompletion requests flips the stored
\* flag: the value a request writes is the negation of the value stored when
\* it writes.
C10_ToggleFlipsOnce ==
    [][ \A p \in Procs :
          toggle_update(p) =>
             \A t \in SelectTask(local[p].task_id, local[p].user_id) :
                \E t2 \in RowAfter(t.id) : t2.completed = ~t.completed ]_vars

====
